---------------------------- MODULE Spec2Model ----------------------------
(***************************************************************************)
(* A model of MinimalClock (src/clock.py): the frameless clock widget with *)
(* mouse-driven dragging, edge resizing and a 3:1 aspect-ratio lock.       *)
(*                                                                         *)
(* The state is the widget's geometry, its two drag fields (old_pos and    *)
(* _resizing_edge), the cursor shape and the label's font size, plus what  *)
(* the toolkit knows and hands to the handlers: the set of mouse buttons   *)
(* held (event.buttons()).  `last` records the handler that ran last and   *)
(* the arguments of its event, so that properties of "the state after a    *)
(* handler" can be stated.                                                 *)
(*                                                                         *)
(* Arithmetic.  The source computes in Python floats; on the integers that *)
(* occur here the float results are exactly these integer ones:            *)
(*   int(h * 3.0) = 3*h,   int(w / 3.0) = w \div 3,   int(h * 0.5) = h \div 2 *)
(*   abs(w / h - 3.0) > 0.01   <=>   100 * |w - 3*h| > h                   *)
(* (the last checked for all 1 <= h < 1200, 1 <= w < 4000, the boundary    *)
(* cases 100*|w - 3*h| = h included: the float test is false there).       *)
(***************************************************************************)
EXTENDS Integers, Sequences, FiniteSets, TLC

VARIABLES x, y, width, height,   \* self.geometry()
          old_pos,               \* self.old_pos: NoPos or <<gx, gy>> (global)
          resizing_edge,         \* self._resizing_edge: NoEdge or a tag
          cursor,                \* the shape last given to self.setCursor
          font_size,             \* point size of time_label's font
          buttons,               \* mouse buttons held: event.buttons()
          last                   \* the handler that ran last and its event

vars == <<x, y, width, height, old_pos, resizing_edge, cursor, font_size,
          buttons, last>>

---------------------------------------------------------------------------
(* Program constants *)

RESIZE_BORDER_SIZE == 5
AspectNum == 3
TolPerCent == 100
MinW == 150
MinH == 50
InitW == 300
InitH == 100
FontFloor == 12

(* Bounds of the model *)

\* the primary screen, which only places the window at start-up
ScreenW == 302
ScreenH == 102
\* window origins explored: 0 .. MaxPos on both axes
MaxPos == 1
\* pointer movement per move event: -MaxDelta .. MaxDelta on both axes
MaxDelta == 1
\* heights explored: up to MinH + HSpan, and within HSpan of InitH
HSpan == 1
\* widths explored: up to MinW + WSpan, and within WSpan of InitW
WSpan == 3
\* how far from the sampled border positions a held pointer may wander
Reach == 0
\* window sizes of SpecClassify: MinW .. MinW + ClassifySpan, likewise heights
ClassifySpan == 1

NoPos == <<>>
NoEdge == "None"

Corners == {"TopLeftCorner", "TopRightCorner", "BottomLeftCorner",
            "BottomRightCorner"}
Edges == {"LeftEdge", "RightEdge", "TopEdge", "BottomEdge"}
Tags == Corners \cup Edges

Buttons == {"Left", "Right"}

Abs(n) == IF n < 0 THEN -n ELSE n
Max(a, b) == IF a >= b THEN a ELSE b

---------------------------------------------------------------------------
(* Pure functions of the widget *)

\* abs(w / h - ASPECT_RATIO) > 0.01
RatioOff(w, h) == TolPerCent * Abs(w - AspectNum * h) > h

\* the classifier with the far borders one pixel too wide (>= for >)
get_resize_edge_Inclusive(px, py, w, h) ==
    LET s == RESIZE_BORDER_SIZE IN
    IF px < s /\ py < s THEN "TopLeftCorner"
    ELSE IF px >= w - s /\ py < s THEN "TopRightCorner"
    ELSE IF px < s /\ py >= h - s THEN "BottomLeftCorner"
    ELSE IF px >= w - s /\ py >= h - s THEN "BottomRightCorner"
    ELSE IF px < s THEN "LeftEdge"
    ELSE IF px >= w - s THEN "RightEdge"
    ELSE IF py < s THEN "TopEdge"
    ELSE IF py >= h - s THEN "BottomEdge"
    ELSE NoEdge

\* the classifier testing the edges before the corners
get_resize_edge_EdgesFirst(px, py, w, h) ==
    LET s == RESIZE_BORDER_SIZE IN
    IF px < s THEN "LeftEdge"
    ELSE IF px > w - s THEN "RightEdge"
    ELSE IF py < s THEN "TopEdge"
    ELSE IF py > h - s THEN "BottomEdge"
    ELSE IF px < s /\ py < s THEN "TopLeftCorner"
    ELSE IF px > w - s /\ py < s THEN "TopRightCorner"
    ELSE IF px < s /\ py > h - s THEN "BottomLeftCorner"
    ELSE IF px > w - s /\ py > h - s THEN "BottomRightCorner"
    ELSE NoEdge

get_resize_edge(px, py, w, h) ==
    LET s == RESIZE_BORDER_SIZE IN
    IF px < s /\ py < s THEN "TopLeftCorner"
    ELSE IF px > w - s /\ py < s THEN "TopRightCorner"
    ELSE IF px < s /\ py > h - s THEN "BottomLeftCorner"
    ELSE IF px > w - s /\ py > h - s THEN "BottomRightCorner"
    ELSE IF px < s THEN "LeftEdge"
    ELSE IF px > w - s THEN "RightEdge"
    ELSE IF py < s THEN "TopEdge"
    ELSE IF py > h - s THEN "BottomEdge"
    ELSE NoEdge

\* the cursor table with the two straight cursors exchanged
cursor_for_edge_Swapped(edge) ==
    CASE edge \in {"TopEdge", "BottomEdge"} -> "SizeHorCursor"
      [] edge \in {"LeftEdge", "RightEdge"} -> "SizeVerCursor"
      [] edge \in {"TopLeftCorner", "BottomRightCorner"} -> "SizeFDiagCursor"
      [] edge \in {"TopRightCorner", "BottomLeftCorner"} -> "SizeBDiagCursor"
      [] OTHER -> "ArrowCursor"

cursor_for_edge(edge) ==
    CASE edge \in {"TopEdge", "BottomEdge"} -> "SizeVerCursor"
      [] edge \in {"LeftEdge", "RightEdge"} -> "SizeHorCursor"
      [] edge \in {"TopLeftCorner", "BottomRightCorner"} -> "SizeFDiagCursor"
      [] edge \in {"TopRightCorner", "BottomLeftCorner"} -> "SizeBDiagCursor"
      [] OTHER -> "ArrowCursor"

\* the font size rounded to the nearest instead of truncated
update_font_size_Rounded(h, current) ==
    IF h > 0 THEN Max((h + 1) \div 2, FontFloor) ELSE current

\* update_font_size: the font the label gets for a window height
update_font_size(h, current) ==
    IF h > 0 THEN Max(h \div 2, FontFloor) ELSE current

---------------------------------------------------------------------------
(* The resize engine: perform_resize *)

\* the delta moving the origin for the right and bottom tags too
ApplyDelta_AlwaysShifts(edge, dx, dy, gx, gy, gw, gh) ==
    LET left   == edge \in {"LeftEdge", "TopLeftCorner", "BottomLeftCorner"}
        right  == edge \in {"RightEdge", "TopRightCorner", "BottomRightCorner"}
        top    == edge \in {"TopEdge", "TopLeftCorner", "TopRightCorner"}
        bottom == edge \in {"BottomEdge", "BottomLeftCorner", "BottomRightCorner"}
        x1 == IF left \/ right THEN gx + dx ELSE gx
        w1 == IF left THEN gw - dx ELSE gw
        w2 == IF right THEN w1 + dx ELSE w1
        y1 == IF top \/ bottom THEN gy + dy ELSE gy
        h1 == IF top THEN gh - dy ELSE gh
        h2 == IF bottom THEN h1 + dy ELSE h1
    IN  <<x1, y1, w2, h2>>

\* the initial geometry changes: the delta applied to the sides the tag names
ApplyDelta(edge, dx, dy, gx, gy, gw, gh) ==
    LET left   == edge \in {"LeftEdge", "TopLeftCorner", "BottomLeftCorner"}
        right  == edge \in {"RightEdge", "TopRightCorner", "BottomRightCorner"}
        top    == edge \in {"TopEdge", "TopLeftCorner", "TopRightCorner"}
        bottom == edge \in {"BottomEdge", "BottomLeftCorner", "BottomRightCorner"}
        x1 == IF left THEN gx + dx ELSE gx
        w1 == IF left THEN gw - dx ELSE gw
        w2 == IF right THEN w1 + dx ELSE w1
        y1 == IF top THEN gy + dy ELSE gy
        h1 == IF top THEN gh - dy ELSE gh
        h2 == IF bottom THEN h1 + dy ELSE h1
    IN  <<x1, y1, w2, h2>>

\* no clamp at all
EnforceMinimum_Off(w, h) == <<w, h>>

\* the clamp with the height forgotten
EnforceMinimum_WidthOnly(w, h) == <<Max(w, MinW), h>>

\* enforce minimum size: max(new_w, minimumWidth()), max(new_h, minimumHeight())
EnforceMinimum(w, h) == <<Max(w, MinW), Max(h, MinH)>>

\* the aspect ratio lock: one dimension recomputed from the other
AspectLock(edge, w, h) ==
    IF RatioOff(w, h)
    THEN IF edge \in {"TopEdge", "BottomEdge"} THEN <<AspectNum * h, h>>
         ELSE IF edge \in {"LeftEdge", "RightEdge"} THEN <<w, w \div AspectNum>>
         ELSE IF edge \in Corners
              THEN IF w > AspectNum * h    \* current_ratio > ASPECT_RATIO
                   THEN <<AspectNum * h, h>>
                   ELSE <<w, w \div AspectNum>>
              ELSE <<w, h>>
    ELSE <<w, h>>

\* the rectangle perform_resize hands to setGeometry
perform_resize(edge, dx, dy, gx, gy, gw, gh) ==
    LET moved   == ApplyDelta(edge, dx, dy, gx, gy, gw, gh)
        clamped == EnforceMinimum(moved[3], moved[4])
        locked  == AspectLock(edge, clamped[1], clamped[2])
    IN  <<moved[1], moved[2], locked[1], locked[2]>>

---------------------------------------------------------------------------
(* The passive aspect-ratio guard: resizeEvent *)

\* the guard recomputing the height from the width
resizeEvent_FromWidth(w, h, edge) ==
    IF RatioOff(w, h) /\ edge = NoEdge
    THEN <<w, w \div AspectNum, 1>>
    ELSE <<w, h, 0>>

\* the guard without its tolerance: any size that is not exactly 3:1 is reset
resizeEvent_Exact(w, h, edge) ==
    IF w # AspectNum * h /\ edge = NoEdge
    THEN <<AspectNum * h, h, 1>>
    ELSE <<w, h, 0>>

\* the guard moving the width only half of the way to 3 * height each time
RECURSIVE resizeEvent_Halfway(_, _, _)
resizeEvent_Halfway(w, h, edge) ==
    IF RatioOff(w, h) /\ edge = NoEdge
    THEN LET new_width == (w + AspectNum * h) \div 2
         IN  IF new_width # w
             THEN LET nested == resizeEvent_Halfway(new_width, h, edge)
                  IN  <<nested[1], nested[2], nested[3] + 1>>
             ELSE <<w, h, 1>>
    ELSE <<w, h, 0>>

\* The handler run on a notification of size <<w, h>>.  Its self.resize raises
\* a further notification when it changes the size, handled before it
\* returns.  The result is <<width, height, corrections made>>.
RECURSIVE resizeEvent(_, _, _)
resizeEvent(w, h, edge) ==
    IF RatioOff(w, h) /\ edge = NoEdge
    THEN LET new_width == AspectNum * h
         IN  IF new_width # w
             THEN LET nested == resizeEvent(new_width, h, edge)
                  IN  <<nested[1], nested[2], nested[3] + 1>>
             ELSE <<w, h, 1>>
    ELSE <<w, h, 0>>

---------------------------------------------------------------------------
(* Events *)

\* what `last` holds: the handler, and of its event the button (press,
\* release), the position where the handler read it (press of the left
\* button, move in the hover branch), the size notified and the corrections
\* made (resize)
Event(ev) ==
    [ev |-> ev, button |-> "None", px |-> 0, py |-> 0, w |-> 0, h |-> 0, n |-> 0]

Init ==
    /\ x = (ScreenW - InitW) \div 2
    /\ y = (ScreenH - InitH) \div 2
    /\ width = InitW
    /\ height = InitH
    /\ old_pos = NoPos
    /\ resizing_edge = NoEdge
    /\ cursor = "ArrowCursor"
    /\ font_size = update_font_size(InitH, 0)
    /\ buttons = {}
    /\ last = Event("init")

\* dragging that follows the pointer along one axis only
MoveBy_XOnly(wx, wy, dx, dy) == <<wx + dx, wy>>

\* standard dragging: self.move(self.pos() + delta)
MoveBy(wx, wy, dx, dy) == <<wx + dx, wy + dy>>

\* the press handler classifying the global position instead of event.pos()
mousePressEvent_Global(b, px, py) ==
    /\ b \notin buttons
    /\ buttons' = buttons \cup {b}
    /\ IF b = "Left"
       THEN /\ old_pos' = <<x + px, y + py>>
            /\ resizing_edge' = get_resize_edge(x + px, y + py, width, height)
            /\ last' = [Event("press") EXCEPT !.button = b, !.px = px, !.py = py]
       ELSE /\ UNCHANGED <<old_pos, resizing_edge>>
            /\ last' = [Event("press") EXCEPT !.button = b]
    /\ UNCHANGED <<x, y, width, height, cursor, font_size>>

\* a button goes down at <<px, py>> (widget coordinates)
mousePressEvent(b, px, py) ==
    /\ b \notin buttons
    /\ buttons' = buttons \cup {b}
    /\ IF b = "Left"
       THEN /\ old_pos' = <<x + px, y + py>>
            /\ resizing_edge' = get_resize_edge(px, py, width, height)
            /\ last' = [Event("press") EXCEPT !.button = b, !.px = px, !.py = py]
       ELSE /\ UNCHANGED <<old_pos, resizing_edge>>
            /\ last' = [Event("press") EXCEPT !.button = b]
    /\ UNCHANGED <<x, y, width, height, cursor, font_size>>

\* the pointer moves to the global position <<gx, gy>>
mouseMoveEvent(gx, gy) ==
    IF buttons = {"Left"}
    THEN IF old_pos = NoPos
         THEN \* globalPosition().toPoint() - None raises TypeError
              /\ last' = Event("moveError")
              /\ UNCHANGED <<x, y, width, height, old_pos, resizing_edge,
                             cursor, font_size, buttons>>
         ELSE LET dx == gx - old_pos[1]
                  dy == gy - old_pos[2]
              IN  /\ IF resizing_edge # NoEdge
                     THEN LET r == perform_resize(resizing_edge, dx, dy,
                                                  x, y, width, height)
                              \* setGeometry notifies: resizeEvent runs
                              g == resizeEvent(r[3], r[4], resizing_edge)
                          IN  /\ x' = r[1]
                              /\ y' = r[2]
                              /\ width' = g[1]
                              /\ height' = g[2]
                              /\ font_size' =
                                   IF <<r[3], r[4]>> # <<width, height>>
                                   THEN update_font_size(g[2], font_size)
                                   ELSE font_size
                     ELSE LET m == MoveBy(x, y, dx, dy)
                          IN  /\ x' = m[1]
                              /\ y' = m[2]
                              /\ UNCHANGED <<width, height, font_size>>
                  /\ old_pos' = <<gx, gy>>
                  /\ last' = Event("move")
                  /\ UNCHANGED <<resizing_edge, cursor, buttons>>
    ELSE LET edge == get_resize_edge(gx - x, gy - y, width, height)
         IN  /\ cursor' = IF edge # NoEdge THEN cursor_for_edge(edge)
                          ELSE "ArrowCursor"
             /\ last' = [Event("hover") EXCEPT !.px = gx - x, !.py = gy - y]
             /\ UNCHANGED <<x, y, width, height, old_pos, resizing_edge,
                            font_size, buttons>>

\* the release handler that forgets to clear the active edge
mouseReleaseEvent_KeepsEdge(b) ==
    /\ b \in buttons
    /\ buttons' = buttons \ {b}
    /\ cursor' = "ArrowCursor"
    /\ old_pos' = NoPos
    /\ last' = [Event("release") EXCEPT !.button = b]
    /\ UNCHANGED <<x, y, width, height, font_size, resizing_edge>>

\* a button goes up
mouseReleaseEvent(b) ==
    /\ b \in buttons
    /\ buttons' = buttons \ {b}
    /\ cursor' = "ArrowCursor"
    /\ old_pos' = NoPos
    /\ resizing_edge' = NoEdge
    /\ last' = [Event("release") EXCEPT !.button = b]
    /\ UNCHANGED <<x, y, width, height, font_size>>

\* the toolkit gives the window the size <<w, h>> and notifies the widget
ExternalResize(w, h) ==
    /\ <<w, h>> # <<width, height>>
    /\ LET g == resizeEvent(w, h, resizing_edge)
       IN  /\ width' = g[1]
           /\ height' = g[2]
           /\ font_size' = update_font_size(g[2], font_size)
           /\ last' = [Event("resize") EXCEPT !.w = w, !.h = h, !.n = g[3]]
    /\ UNCHANGED <<x, y, old_pos, resizing_edge, cursor, buttons>>

\* the 100 ms timer fires: update_time
update_time ==
    /\ font_size' = update_font_size(height, font_size)
    /\ last' = Event("tick")
    /\ UNCHANGED <<x, y, width, height, old_pos, resizing_edge, cursor,
                   buttons>>

---------------------------------------------------------------------------
(* Inputs explored *)

Deltas == (-MaxDelta) .. MaxDelta

\* pointer coordinates sampled along one axis of a window of extent dim:
\* the last pixel of each border band and the first pixel past it
Samples(dim) == {RESIZE_BORDER_SIZE - 1, RESIZE_BORDER_SIZE,
                 dim - RESIZE_BORDER_SIZE, dim - RESIZE_BORDER_SIZE + 1}

NearSample(c, dim) == \E s \in Samples(dim) : Abs(c - s) <= Reach

HeightInModel(h) == h <= MinH + HSpan \/ Abs(h - InitH) <= HSpan
WidthInModel(w) == w <= MinW + WSpan \/ Abs(w - InitW) <= WSpan

\* sizes the toolkit imposes in this model: the minimum and the initial size,
\* sizes within the tolerance of 3:1 and off it on either side, small and large
ExternalSizes ==
    {<<MinW, MinH>>, <<MinW + 2, MinH>>, <<MinW, MinH + 1>>,
     <<InitW, InitH>>, <<InitW + 1, InitH>>, <<InitW - 1, InitH>>,
     <<InitW + 2, InitH>>, <<InitW + 100, InitH>>}

\* positions of a pointer-move event
MovePositions ==
    IF buttons = {"Left"} /\ old_pos # NoPos
    THEN {p \in {<<old_pos[1] + dx, old_pos[2] + dy>> : dx \in Deltas, dy \in Deltas} :
            /\ NearSample(p[1] - x, width)
            /\ NearSample(p[2] - y, height)}
    ELSE {<<x + px, y + py>> : px \in Samples(width), py \in Samples(height)}

GeometryInModel ==
    /\ x \in 0 .. MaxPos
    /\ y \in 0 .. MaxPos
    /\ WidthInModel(width)
    /\ HeightInModel(height)

Next ==
    \/ \E b \in Buttons \ buttons, px \in Samples(width), py \in Samples(height) :
          mousePressEvent(b, px, py)
    \/ \E p \in MovePositions : mouseMoveEvent(p[1], p[2]) /\ GeometryInModel'
    \/ \E b \in buttons : mouseReleaseEvent(b)
    \/ \E s \in ExternalSizes : ExternalResize(s[1], s[2])
    \/ update_time

Spec == Init /\ [][Next]_vars

---------------------------------------------------------------------------
(* The pointer-down handler on every pixel of the window: a second          *)
(* specification, for the properties of the edge classifier.  The window   *)
(* has one of a few sizes; the left button goes down anywhere in it.       *)

ClassifySizes ==
    ((MinW .. MinW + ClassifySpan) \X (MinH .. MinH + ClassifySpan))
    \cup {<<InitW, InitH>>}

InitClassify ==
    /\ x = (ScreenW - InitW) \div 2
    /\ y = (ScreenH - InitH) \div 2
    /\ \E s \in ClassifySizes : width = s[1] /\ height = s[2]
    /\ old_pos = NoPos
    /\ resizing_edge = NoEdge
    /\ cursor = "ArrowCursor"
    /\ font_size = update_font_size(height, 0)
    /\ buttons = {}
    /\ last = Event("init")

NextClassify ==
    \/ /\ "Left" \notin buttons
       /\ \E px \in 0 .. width - 1, py \in 0 .. height - 1 :
             mousePressEvent("Left", px, py)
    \/ mouseReleaseEvent("Left")

SpecClassify == InitClassify /\ [][NextClassify]_vars

TypeOK ==
    /\ x \in Int /\ y \in Int /\ width \in Int /\ height \in Int
    /\ old_pos = NoPos \/ Len(old_pos) = 2
    /\ resizing_edge \in Tags \cup {NoEdge}
    /\ buttons \subseteq Buttons

---------------------------------------------------------------------------
(* Properties *)

\* |w / h - 3| <= 0.01, in exact arithmetic
WithinTolerance(w, h) ==
    /\ 100 * (w - 3 * h) <= h
    /\ 100 * (3 * h - w) <= h

\* the state is the one a resize step of perform_resize has just committed
AfterResizeStep == last.ev = "move" /\ resizing_edge # NoEdge

\* no gesture is in progress
AtRest == old_pos = NoPos /\ resizing_edge = NoEdge

\* C1: every geometry committed by a resize step has width >= 150 and
\* height >= 50, whatever the tag and the delta, the aspect correction
\* included.
C1_MinimumSizeKept ==
    AfterResizeStep => (width >= 150 /\ height >= 50)

\* a top-left resize has stopped at the minimum size
C1_Witness ==
    /\ AfterResizeStep
    /\ resizing_edge = "TopLeftCorner"
    /\ width = 150
    /\ height = 50

\* C2: every geometry committed by a resize step satisfies
\* |width / height - 3| <= 0.01.
C2_RatioKeptByResize ==
    AfterResizeStep => WithinTolerance(width, height)

\* C3: in every state where no gesture is in progress the geometry satisfies
\* width >= 150, height >= 50 and |width / height - 3| <= 0.01.
C3_GeometryAtRest ==
    AtRest => (width >= 150 /\ height >= 50 /\ WithinTolerance(width, height))

\* C4: a LeftEdge resize step leaves x + width as it was and a TopEdge resize
\* step leaves y + height as it was, for every delta, also when the size is
\* clamped to the minimum.
C4_OppositeEdgeStays ==
    [][(last'.ev = "move" /\ resizing_edge \in {"LeftEdge", "TopEdge"})
         => /\ resizing_edge = "LeftEdge" => x' + width' = x + width
            /\ resizing_edge = "TopEdge" => y' + height' = y + height]_vars

\* C5: in a gesture in move mode (begun by a pointer-down in the interior, so
\* with no active edge) every pointer-move with the button held translates
\* the origin by the pointer delta and leaves width and height unchanged.
C5_InteriorDragTranslates ==
    [][(last'.ev = "move" /\ resizing_edge = NoEdge)
         => /\ x' = x + (old_pos'[1] - old_pos[1])
            /\ y' = y + (old_pos'[2] - old_pos[2])
            /\ width' = width
            /\ height' = height]_vars

\* a move-mode drag has moved the window left of where it started
C5_Witness ==
    /\ last.ev = "move"
    /\ resizing_edge = NoEdge
    /\ x < (ScreenW - InitW) \div 2

\* C6: a pointer position with 5 <= x <= width - 5 and 5 <= y <= height - 5,
\* boundaries included, is classified as none (the left button going down
\* there leaves no active edge).
C6_InteriorIsNone ==
    (/\ last.ev = "press"
     /\ 5 <= last.px /\ last.px <= width - 5
     /\ 5 <= last.py /\ last.py <= height - 5)
        => resizing_edge = NoEdge

\* the button went down on the far corner of the interior
C6_Witness ==
    /\ last.ev = "press"
    /\ last.px = width - 5
    /\ last.py = height - 5
    /\ old_pos = <<x + width - 5, y + height - 5>>
    /\ resizing_edge = NoEdge

\* C7: on a resize notification with no active edge and
\* |width / height - 3| > 0.01, the guard sets the width to 3 * height and
\* leaves the height unchanged; (400, 100) becomes (300, 100).
C7_PassiveGuardCorrects ==
    (/\ last.ev = "resize"
     /\ resizing_edge = NoEdge
     /\ ~WithinTolerance(last.w, last.h))
        => (width = 3 * last.h /\ height = last.h)

\* the passive resize to (400, 100) has been corrected to (300, 100)
C7_Witness ==
    /\ last.ev = "resize"
    /\ resizing_edge = NoEdge
    /\ last.w = 400 /\ last.h = 100
    /\ width = 300 /\ height = 100

\* C8: the guard is idempotent: on a notification of a size already within
\* 0.01 of 3:1 it changes neither width nor height, and run on the size it
\* has left it changes nothing.
C8_PassiveGuardIdempotent ==
    last.ev = "resize"
        => /\ WithinTolerance(last.w, last.h)
                => (width = last.w /\ height = last.h)
           /\ resizeEvent(width, height, resizing_edge) = <<width, height, 0>>

\* a notification of 301 x 100, inside the tolerance but not 3:1, was left alone
C8_Witness ==
    /\ last.ev = "resize"
    /\ resizing_edge = NoEdge
    /\ last.w = 301 /\ last.h = 100
    /\ width = 301 /\ height = 100

\* C9: every pointer-up clears old_pos and the active edge, resets the cursor
\* to the arrow and leaves the geometry unchanged.
C9_ReleaseClears ==
    [][last'.ev = "release"
         => /\ old_pos' = NoPos
            /\ resizing_edge' = NoEdge
            /\ cursor' = "ArrowCursor"
            /\ <<x', y', width', height'>> = <<x, y, width, height>>]_vars

\* the left button was released over a resized window, the cursor arrow again
C9_Witness ==
    /\ last.ev = "release"
    /\ last.button = "Left"
    /\ AtRest
    /\ cursor = "ArrowCursor"
    /\ width # InitW

\* C10 as stated: after every pointer-down a pointer position is recorded and
\* the active edge is its classification.
C10_EveryPressRecords ==
    last.ev = "press"
        => /\ old_pos = <<x + last.px, y + last.py>>
           /\ resizing_edge = get_resize_edge(last.px, last.py, width, height)

\* C10 amended: a pointer-down of the left button records the pointer's global
\* position and makes the classification of its widget position the active
\* edge (a tag: resize mode, none: move mode); a pointer-down of another
\* button leaves old_pos and the active edge as they were.
C10_LeftPressRecords ==
    [][last'.ev = "press"
         => IF last'.button = "Left"
            THEN /\ old_pos' = <<x + last'.px, y + last'.py>>
                 /\ resizing_edge' =
                      get_resize_edge(last'.px, last'.py, width, height)
            ELSE UNCHANGED <<old_pos, resizing_edge>>]_vars

\* the left button went down in the bottom-right corner
C10_Witness ==
    /\ last.ev = "press"
    /\ last.button = "Left"
    /\ old_pos = <<x + last.px, y + last.py>>
    /\ resizing_edge = "BottomRightCorner"

\* the cursor the hover branch is to show for a widget position: the
\* directional cursor of the corner or edge whose border band holds it
HoverCursor(px, py, w, h) ==
    LET L == px < 5
        R == px > w - 5
        T == py < 5
        B == py > h - 5
    IN  IF (L /\ T) \/ (R /\ B) THEN "SizeFDiagCursor"
        ELSE IF (R /\ T) \/ (L /\ B) THEN "SizeBDiagCursor"
        ELSE IF L \/ R THEN "SizeHorCursor"
        ELSE IF T \/ B THEN "SizeVerCursor"
        ELSE "ArrowCursor"

\* C11: a pointer-move with no button held changes neither the geometry nor
\* the drag state; it sets the cursor to the directional cursor of the edge or
\* corner under the pointer, or to the arrow when there is none.
C11_HoverOnlySetsCursor ==
    [][(last'.ev = "hover" /\ buttons = {})
         => /\ UNCHANGED <<x, y, width, height, old_pos, resizing_edge>>
            /\ cursor' = HoverCursor(last'.px, last'.py, width, height)]_vars

\* the pointer hovers over the top-right corner, nothing held
C11_Witness ==
    /\ last.ev = "hover"
    /\ buttons = {}
    /\ last.px > width - 5 /\ last.py < 5
    /\ cursor = "SizeBDiagCursor"

\* C12: no division by a zero height: the window height, which resizeEvent
\* divides by on a notification, is at least 50, and so is the height notified;
\* and for every tag and delta the clamped height perform_resize divides by is
\* at least 50.
C12_DivisorAtLeastMinimum ==
    /\ height >= 50
    /\ last.ev = "resize" => last.h >= 50
    /\ resizing_edge # NoEdge =>
         \A dx \in Deltas, dy \in Deltas :
            LET m == ApplyDelta(resizing_edge, dx, dy, x, y, width, height)
            IN  EnforceMinimum(m[3], m[4])[2] >= 50

\* a bottom-edge resize at the minimum height, where the clamp decides
C12_Witness ==
    /\ AfterResizeStep
    /\ resizing_edge = "BottomEdge"
    /\ height = 50
    /\ width = 150

\* C13: a corner resize whose clamped size is off 3:1 by more than 0.01
\* commits, of width := 3 * height and height := width / 3, the candidate
\* with the smaller absolute pixel change.
C13_CornerSmallerChange ==
    [][(last'.ev = "move" /\ resizing_edge \in Corners)
         => LET m == ApplyDelta(resizing_edge, old_pos'[1] - old_pos[1],
                                old_pos'[2] - old_pos[2], x, y, width, height)
                w == Max(m[3], 150)
                h == Max(m[4], 50)
                byWidth  == Abs(3 * h - w)
                byHeight == Abs(w \div 3 - h)
            IN  ~WithinTolerance(w, h)
                  => /\ byWidth < byHeight
                          => <<width', height'>> = <<3 * h, h>>
                     /\ byHeight < byWidth
                          => <<width', height'>> = <<w, w \div 3>>]_vars

\* the border band holding a widget position: a corner where two bands meet
BandTag(px, py, w, h) ==
    LET L == px < 5
        R == px > w - 5
        T == py < 5
        B == py > h - 5
    IN  IF L /\ T THEN "TopLeftCorner"
        ELSE IF R /\ T THEN "TopRightCorner"
        ELSE IF L /\ B THEN "BottomLeftCorner"
        ELSE IF R /\ B THEN "BottomRightCorner"
        ELSE IF L THEN "LeftEdge"
        ELSE IF R THEN "RightEdge"
        ELSE IF T THEN "TopEdge"
        ELSE IF B THEN "BottomEdge"
        ELSE NoEdge

\* C14: a position in the border bands of two adjacent edges is classified as
\* their corner, never as one edge; a position in the band of exactly one
\* edge as that edge; and classifying changes nothing else (geometry, cursor,
\* font).
C14_CornersBeforeEdges ==
    [][last'.ev = "press"
         => /\ resizing_edge' = BandTag(last'.px, last'.py, width, height)
            /\ UNCHANGED <<x, y, width, height, cursor, font_size>>]_vars

\* the button went down where the bottom and left bands meet
C14_Witness ==
    /\ last.ev = "press"
    /\ last.px = 4 /\ last.py = height - 4
    /\ resizing_edge = "BottomLeftCorner"

\* C15: after every clock tick and every resize notification the font size
\* is max(12, floor(0.5 * height)).
C15_FontFollowsHeight ==
    last.ev \in {"tick", "resize"}
        => font_size = (IF height \div 2 >= 12 THEN height \div 2 ELSE 12)

\* a notification left the window 51 high: the font is 25
C15_Witness ==
    /\ last.ev = "resize"
    /\ height = 51
    /\ font_size = 25

\* C16: no pointer-move is processed with exactly the left button held and
\* no recorded position (the handler never fails computing the delta).
C16_LeftHeldMoveHasPosition ==
    last.ev # "moveError"

\* C17: a resize step with tag RightEdge, BottomEdge or BottomRightCorner
\* leaves x and y as they were.
C17_FarTagsKeepOrigin ==
    [][(last'.ev = "move"
        /\ resizing_edge \in {"RightEdge", "BottomEdge", "BottomRightCorner"})
         => (x' = x /\ y' = y)]_vars

\* a right-edge resize has made the window one pixel wider than at start
C17_Witness ==
    /\ AfterResizeStep
    /\ resizing_edge = "RightEdge"
    /\ width = InitW + 1

\* C18: with no active edge the chain of notifications the guard raises ends
\* after at most one correction, at a size the guard leaves unchanged.
C18_GuardChainEnds ==
    (last.ev = "resize" /\ resizing_edge = NoEdge)
        => /\ last.n <= 1
           /\ ~RatioOff(width, height)
           /\ resizeEvent(width, height, NoEdge)[3] = 0

\* a notification of 150 x 51 took one correction, to 153 x 51
C18_Witness ==
    /\ last.ev = "resize"
    /\ resizing_edge = NoEdge
    /\ last.w = 150 /\ last.h = 51
    /\ last.n = 1
    /\ width = 153

====
